---- MODULE Spec2Model ----
(***************************************************************************)
(* A model of markyp_rss/elements.py: the RSS 2.0 element classes          *)
(* (Category, Cloud, Enclosure, GUID, Image, Source, Item, Channel, RSS),  *)
(* their string rendering (__str__) and the chainable list mutators of     *)
(* Item and Channel.                                                       *)
(*                                                                         *)
(* Text is a sequence of one-character strings, so that escaping and       *)
(* string composition are computed character by character.  Python's       *)
(* Optional[T] is a sequence of length at most one: None is <<>> and a     *)
(* present value v is <<v>>.  Python list objects live in the heap `lists` *)
(* and are referred to by identity (a list id), element objects live in    *)
(* `objs`.                                                                 *)
(***************************************************************************)
EXTENDS Integers, Sequences, FiniteSets, TLC

VARIABLES
    objs,    \* element id -> the element object (a record of its slots)
    lists,   \* list id -> the contents of that Python list object
    ret,     \* what the most recent operation returned
    last,    \* history: the most recent operation
    expect,  \* history: per element, the lists the mutator calls made on it describe
    solo     \* history: the element every mutator call so far was made on

vars == <<objs, lists, ret, last, expect, solo>>

-----------------------------------------------------------------------------
(* Bounds of the model.                                                    *)

\* longest text value drawn for the value of a Category, Source or GUID
MaxLen == 2
\* most entries all the list objects of the heap hold together
MaxCells == 4

-----------------------------------------------------------------------------
(* Optional values and text.                                               *)

None == <<>>
Some(v) == <<v>>
Opt(S) == {None} \cup {Some(v) : v \in S}

SeqsUpTo(S, n) == UNION {[1..k -> S] : k \in 0..n}

\* the characters field values are drawn from
Alphabet == {"a", "&", "<", ">", "\""}
Texts == SeqsUpTo(Alphabet, MaxLen)
\* values drawn for attributes (Category.domain, Source.url, Cloud, Enclosure)
AttrTexts == {<<>>, <<"a">>, <<"\"">>, <<"<">>, <<"&">>, <<"a", "\"", "a">>}
\* values drawn for the text fields of Image, Item and Channel
FieldTexts == {<<>>, <<"a", "<", "&", ">">>}

NL == "\n"
QUOTE == "\""

RECURSIVE Join(_, _)
\* sep.join(items)
Join(items, sep) ==
    IF items = <<>> THEN <<>>
    ELSE IF Len(items) = 1 THEN items[1]
    ELSE items[1] \o <<sep>> \o Join(Tail(items), sep)

Digits == <<"0", "1", "2", "3", "4", "5", "6", "7", "8", "9">>

RECURSIVE NatStr(_)
NatStr(n) == IF n < 10 THEN <<Digits[n + 1]>> ELSE NatStr(n \div 10) \o <<Digits[(n % 10) + 1]>>

\* str(n) of an int
IntStr(n) == IF n < 0 THEN <<"-">> \o NatStr(0 - n) ELSE NatStr(n)

-----------------------------------------------------------------------------
(* markyp.formatters: the escaping and attribute formatting the elements   *)
(* import.                                                                 *)

AMP == <<"&", "a", "m", "p", ";">>
LTE == <<"&", "l", "t", ";">>
GTE == <<"&", "g", "t", ";">>

RECURSIVE Replace(_, _, _)
\* str.replace(old, new) for a one-character old
Replace(s, old, new) ==
    IF s = <<>> THEN <<>>
    ELSE (IF Head(s) = old THEN new ELSE <<Head(s)>>) \o Replace(Tail(s), old, new)

\* xml_escape(value): & first, then < and >
xml_escape(value) == Replace(Replace(Replace(value, "&", AMP), "<", LTE), ">", GTE)

\* one key="value" pair; v is text or an int
format_property(key, v, isInt) ==
    key \o <<"=", QUOTE>> \o (IF isInt THEN IntStr(v) ELSE v) \o <<QUOTE>>

\* format_properties(props): props is a sequence of <<key, value, isInt>>
format_properties(props) ==
    Join([i \in 1..Len(props) |-> format_property(props[i][1], props[i][2], props[i][3])], " ")

-----------------------------------------------------------------------------
(* Literal markup of elements.py.                                          *)

S_category == <<"c", "a", "t", "e", "g", "o", "r", "y">>
S_guid == <<"g", "u", "i", "d">>
S_image == <<"i", "m", "a", "g", "e">>
S_title == <<"t", "i", "t", "l", "e">>
S_url == <<"u", "r", "l">>
S_link == <<"l", "i", "n", "k">>
S_source == <<"s", "o", "u", "r", "c", "e">>
S_item == <<"i", "t", "e", "m">>
S_description == <<"d", "e", "s", "c", "r", "i", "p", "t", "i", "o", "n">>
S_author == <<"a", "u", "t", "h", "o", "r">>
S_comments == <<"c", "o", "m", "m", "e", "n", "t", "s">>
S_pubDate == <<"p", "u", "b", "D", "a", "t", "e">>
S_channel == <<"c", "h", "a", "n", "n", "e", "l">>
S_language == <<"l", "a", "n", "g", "u", "a", "g", "e">>
S_copyright == <<"c", "o", "p", "y", "r", "i", "g", "h", "t">>
S_managingEditor == <<"m", "a", "n", "a", "g", "i", "n", "g", "E", "d", "i", "t", "o", "r">>
S_webMaster == <<"w", "e", "b", "M", "a", "s", "t", "e", "r">>
S_lastBuildDate == <<"l", "a", "s", "t", "B", "u", "i", "l", "d", "D", "a", "t", "e">>
S_generator == <<"g", "e", "n", "e", "r", "a", "t", "o", "r">>
S_docs == <<"d", "o", "c", "s">>
S_ttl == <<"t", "t", "l">>
S_domain == <<"d", "o", "m", "a", "i", "n">>
S_port == <<"p", "o", "r", "t">>
S_path == <<"p", "a", "t", "h">>
S_registerProcedure == <<"r", "e", "g", "i", "s", "t", "e", "r", "P", "r", "o", "c", "e", "d", "u", "r", "e">>
S_protocol == <<"p", "r", "o", "t", "o", "c", "o", "l">>
S_length == <<"l", "e", "n", "g", "t", "h">>
S_type == <<"t", "y", "p", "e">>
S_true == <<"t", "r", "u", "e">>
S_false == <<"f", "a", "l", "s", "e">>
S_markyp_rss == <<"m", "a", "r", "k", "y", "p", "_", "r", "s", "s">>
S_guid_open == <<"<", "g", "u", "i", "d", " ", "i", "s", "P", "e", "r", "m", "a", "L", "i", "n", "k", "=", "\"">>
S_source_open == <<"<", "s", "o", "u", "r", "c", "e", " ", "u", "r", "l", "=", "\"">>
S_category_open == <<"<", "c", "a", "t", "e", "g", "o", "r", "y">>
S_domain_attr == <<" ", "d", "o", "m", "a", "i", "n", "=", "\"">>
S_cloud_open == <<"<", "c", "l", "o", "u", "d", " ">>
S_enclosure_open == <<"<", "e", "n", "c", "l", "o", "s", "u", "r", "e", " ">>
S_selfclose == <<"/", ">">>
S_rss == <<"r", "s", "s">>
S_rss_open == <<"<", "r", "s", "s", " ", "v", "e", "r", "s", "i", "o", "n", "=", "\"", "2", ".", "0", "\"", ">">>
S_quote_gt == <<"\"", ">">>

\* "<name>"
OpenTag(name) == <<"<">> \o name \o <<">">>
\* "</name>"
CloseTag(name) == <<"<", "/">> \o name \o <<">">>
\* f"<name>{body}</name>"
Tag(name, body) == OpenTag(name) \o body \o CloseTag(name)

-----------------------------------------------------------------------------
(* Rendering of the leaf elements and of Image: each takes the object.     *)

\* Category.__str__ testing the domain against None only
Category__str__NotNone(self) ==
    LET domain == IF self.domain # None
                  THEN S_domain_attr \o self.domain[1] \o <<QUOTE>>
                  ELSE <<>>
    IN  S_category_open \o domain \o <<">">> \o xml_escape(self.value) \o CloseTag(S_category)

\* Category.__str__
Category__str__(self) ==
    LET domain == IF self.domain # None /\ self.domain[1] # <<>>
                  THEN S_domain_attr \o self.domain[1] \o <<QUOTE>>
                  ELSE <<>>
    IN  S_category_open \o domain \o <<">">> \o xml_escape(self.value) \o CloseTag(S_category)

\* Cloud.__str__ leaving out the properties whose value is falsy
Cloud__str__OmitsFalsy(self) ==
    LET all == << <<S_domain, self.domain, FALSE>>,
                  <<S_port, self.port, TRUE>>,
                  <<S_path, self.path, FALSE>>,
                  <<S_registerProcedure, self.register_procedure, FALSE>>,
                  <<S_protocol, self.protocol, FALSE>> >>
        properties == SelectSeq(all, LAMBDA p : p[2] # (IF p[3] THEN 0 ELSE <<>>))
    IN  S_cloud_open \o format_properties(properties) \o S_selfclose

\* Cloud.__str__
Cloud__str__(self) ==
    LET properties == << <<S_domain, self.domain, FALSE>>,
                         <<S_port, self.port, TRUE>>,
                         <<S_path, self.path, FALSE>>,
                         <<S_registerProcedure, self.register_procedure, FALSE>>,
                         <<S_protocol, self.protocol, FALSE>> >>
    IN  S_cloud_open \o format_properties(properties) \o S_selfclose

\* Enclosure.__str__
Enclosure__str__(self) ==
    LET properties == << <<S_url, self.url, FALSE>>,
                         <<S_length, self.length, TRUE>>,
                         <<S_type, self.type, FALSE>> >>
    IN  S_enclosure_open \o format_properties(properties) \o S_selfclose

\* GUID.__str__ escaping the escaped value again
GUID__str__Twice(self) ==
    LET is_perma_link == IF self.is_perma_link THEN S_true ELSE S_false
    IN  S_guid_open \o is_perma_link \o S_quote_gt \o xml_escape(xml_escape(self.value))
        \o CloseTag(S_guid)

\* GUID.__str__ writing the bool as Python's str() does
GUID__str__PythonBool(self) ==
    LET is_perma_link == IF self.is_perma_link THEN <<"T", "r", "u", "e">>
                         ELSE <<"F", "a", "l", "s", "e">>
    IN  S_guid_open \o is_perma_link \o S_quote_gt \o xml_escape(self.value) \o CloseTag(S_guid)

\* GUID.__str__
GUID__str__(self) ==
    LET is_perma_link == IF self.is_perma_link THEN S_true ELSE S_false
    IN  S_guid_open \o is_perma_link \o S_quote_gt \o xml_escape(self.value) \o CloseTag(S_guid)

\* Image.__str__ emitting the url before the title
Image__str__UrlFirst(self) ==
    LET items == <<OpenTag(S_image)>>
                 \o (IF self.url # None THEN <<Tag(S_url, xml_escape(self.url[1]))>> ELSE <<>>)
                 \o (IF self.title # None THEN <<Tag(S_title, xml_escape(self.title[1]))>> ELSE <<>>)
                 \o (IF self.link # None THEN <<Tag(S_link, xml_escape(self.link[1]))>> ELSE <<>>)
                 \o <<CloseTag(S_image)>>
    IN  Join(items, NL)

\* Image.__str__
Image__str__(self) ==
    LET items == <<OpenTag(S_image)>>
                 \o (IF self.title # None THEN <<Tag(S_title, xml_escape(self.title[1]))>> ELSE <<>>)
                 \o (IF self.url # None THEN <<Tag(S_url, xml_escape(self.url[1]))>> ELSE <<>>)
                 \o (IF self.link # None THEN <<Tag(S_link, xml_escape(self.link[1]))>> ELSE <<>>)
                 \o <<CloseTag(S_image)>>
    IN  Join(items, NL)

\* Source.__str__: the value is escaped, and the escaped value is escaped again
Source__str__(self) ==
    LET value == IF self.value # None THEN xml_escape(self.value[1]) ELSE <<>>
    IN  S_source_open \o self.url \o S_quote_gt \o xml_escape(value) \o CloseTag(S_source)

-----------------------------------------------------------------------------
(* Rendering of Item, Channel and RSS.  An Item or Channel holds the id of *)
(* its list objects; a Channel's item list holds the ids of Item objects.  *)

\* Item.__str__ emitting the categories before the optional fields
Item__str__CategoriesFirst(self, heap) ==
    LET items == <<OpenTag(S_item),
                   Tag(S_title, xml_escape(self.title)),
                   Tag(S_link, xml_escape(self.link))>>
                 \o [i \in 1..Len(heap[self._categories]) |->
                        Category__str__(heap[self._categories][i])]
                 \o (IF self.description # None
                     THEN <<Tag(S_description, xml_escape(self.description[1]))>> ELSE <<>>)
                 \o (IF self.author # None
                     THEN <<Tag(S_author, xml_escape(self.author[1]))>> ELSE <<>>)
                 \o (IF self.comments # None
                     THEN <<Tag(S_comments, xml_escape(self.comments[1]))>> ELSE <<>>)
                 \o (IF self.enclosure # None THEN <<Enclosure__str__(self.enclosure[1])>> ELSE <<>>)
                 \o (IF self.guid # None THEN <<GUID__str__(self.guid[1])>> ELSE <<>>)
                 \o (IF self.pub_date # None
                     THEN <<Tag(S_pubDate, xml_escape(self.pub_date[1]))>> ELSE <<>>)
                 \o (IF self.source # None THEN <<Source__str__(self.source[1])>> ELSE <<>>)
                 \o <<CloseTag(S_item)>>
    IN  Join(items, NL)

\* Item.__str__
Item__str__(self, heap) ==
    LET items == <<OpenTag(S_item),
                   Tag(S_title, xml_escape(self.title)),
                   Tag(S_link, xml_escape(self.link))>>
                 \o (IF self.description # None
                     THEN <<Tag(S_description, xml_escape(self.description[1]))>> ELSE <<>>)
                 \o (IF self.author # None
                     THEN <<Tag(S_author, xml_escape(self.author[1]))>> ELSE <<>>)
                 \o (IF self.comments # None
                     THEN <<Tag(S_comments, xml_escape(self.comments[1]))>> ELSE <<>>)
                 \o (IF self.enclosure # None THEN <<Enclosure__str__(self.enclosure[1])>> ELSE <<>>)
                 \o (IF self.guid # None THEN <<GUID__str__(self.guid[1])>> ELSE <<>>)
                 \o (IF self.pub_date # None
                     THEN <<Tag(S_pubDate, xml_escape(self.pub_date[1]))>> ELSE <<>>)
                 \o (IF self.source # None THEN <<Source__str__(self.source[1])>> ELSE <<>>)
                 \o [i \in 1..Len(heap[self._categories]) |->
                        Category__str__(heap[self._categories][i])]
                 \o <<CloseTag(S_item)>>
    IN  Join(items, NL)

\* Channel.__str__ testing ttl and docs for truth, not against None
Channel__str__Truthy(self, heap, os) ==
    LET items == <<OpenTag(S_channel),
                   Tag(S_title, xml_escape(self.title)),
                   Tag(S_link, xml_escape(self.link)),
                   Tag(S_description, xml_escape(self.description))>>
                 \o (IF self.language # None
                     THEN <<Tag(S_language, xml_escape(self.language[1]))>> ELSE <<>>)
                 \o (IF self.copyright # None
                     THEN <<Tag(S_copyright, xml_escape(self.copyright[1]))>> ELSE <<>>)
                 \o (IF self.managing_editor # None
                     THEN <<Tag(S_managingEditor, xml_escape(self.managing_editor[1]))>> ELSE <<>>)
                 \o (IF self.web_master # None
                     THEN <<Tag(S_webMaster, xml_escape(self.web_master[1]))>> ELSE <<>>)
                 \o (IF self.pub_date # None
                     THEN <<Tag(S_pubDate, xml_escape(self.pub_date[1]))>> ELSE <<>>)
                 \o (IF self.last_build_date # None
                     THEN <<Tag(S_lastBuildDate, xml_escape(self.last_build_date[1]))>> ELSE <<>>)
                 \o (IF self.generator # None
                     THEN <<Tag(S_generator, xml_escape(self.generator[1]))>> ELSE <<>>)
                 \o (IF self.docs # None /\ self.docs[1] # <<>>
                     THEN <<Tag(S_docs, xml_escape(self.docs[1]))>> ELSE <<>>)
                 \o (IF self.ttl # None /\ self.ttl[1] # 0 THEN <<Tag(S_ttl, IntStr(self.ttl[1]))>> ELSE <<>>)
                 \o (IF self.cloud # None THEN <<Cloud__str__(self.cloud[1])>> ELSE <<>>)
                 \o (IF self.image # None THEN <<Image__str__(self.image[1])>> ELSE <<>>)
                 \o [i \in 1..Len(heap[self._categories]) |->
                        Category__str__(heap[self._categories][i])]
                 \o [i \in 1..Len(heap[self._items]) |->
                        Item__str__(os[heap[self._items][i]], heap)]
                 \o <<CloseTag(S_channel)>>
    IN  Join(items, NL)

\* Channel.__str__ emitting docs before language
Channel__str__DocsFirst(self, heap, os) ==
    LET items == <<OpenTag(S_channel),
                   Tag(S_title, xml_escape(self.title)),
                   Tag(S_link, xml_escape(self.link)),
                   Tag(S_description, xml_escape(self.description))>>
                 \o (IF self.docs # None
                     THEN <<Tag(S_docs, xml_escape(self.docs[1]))>> ELSE <<>>)
                 \o (IF self.language # None
                     THEN <<Tag(S_language, xml_escape(self.language[1]))>> ELSE <<>>)
                 \o (IF self.copyright # None
                     THEN <<Tag(S_copyright, xml_escape(self.copyright[1]))>> ELSE <<>>)
                 \o (IF self.managing_editor # None
                     THEN <<Tag(S_managingEditor, xml_escape(self.managing_editor[1]))>> ELSE <<>>)
                 \o (IF self.web_master # None
                     THEN <<Tag(S_webMaster, xml_escape(self.web_master[1]))>> ELSE <<>>)
                 \o (IF self.pub_date # None
                     THEN <<Tag(S_pubDate, xml_escape(self.pub_date[1]))>> ELSE <<>>)
                 \o (IF self.last_build_date # None
                     THEN <<Tag(S_lastBuildDate, xml_escape(self.last_build_date[1]))>> ELSE <<>>)
                 \o (IF self.generator # None
                     THEN <<Tag(S_generator, xml_escape(self.generator[1]))>> ELSE <<>>)
                 \o (IF self.ttl # None THEN <<Tag(S_ttl, IntStr(self.ttl[1]))>> ELSE <<>>)
                 \o (IF self.cloud # None THEN <<Cloud__str__(self.cloud[1])>> ELSE <<>>)
                 \o (IF self.image # None THEN <<Image__str__(self.image[1])>> ELSE <<>>)
                 \o [i \in 1..Len(heap[self._categories]) |->
                        Category__str__(heap[self._categories][i])]
                 \o [i \in 1..Len(heap[self._items]) |->
                        Item__str__(os[heap[self._items][i]], heap)]
                 \o <<CloseTag(S_channel)>>
    IN  Join(items, NL)

\* Channel.__str__ emitting the items before the categories
Channel__str__ItemsFirst(self, heap, os) ==
    LET items == <<OpenTag(S_channel),
                   Tag(S_title, xml_escape(self.title)),
                   Tag(S_link, xml_escape(self.link)),
                   Tag(S_description, xml_escape(self.description))>>
                 \o (IF self.language # None
                     THEN <<Tag(S_language, xml_escape(self.language[1]))>> ELSE <<>>)
                 \o (IF self.copyright # None
                     THEN <<Tag(S_copyright, xml_escape(self.copyright[1]))>> ELSE <<>>)
                 \o (IF self.managing_editor # None
                     THEN <<Tag(S_managingEditor, xml_escape(self.managing_editor[1]))>> ELSE <<>>)
                 \o (IF self.web_master # None
                     THEN <<Tag(S_webMaster, xml_escape(self.web_master[1]))>> ELSE <<>>)
                 \o (IF self.pub_date # None
                     THEN <<Tag(S_pubDate, xml_escape(self.pub_date[1]))>> ELSE <<>>)
                 \o (IF self.last_build_date # None
                     THEN <<Tag(S_lastBuildDate, xml_escape(self.last_build_date[1]))>> ELSE <<>>)
                 \o (IF self.generator # None
                     THEN <<Tag(S_generator, xml_escape(self.generator[1]))>> ELSE <<>>)
                 \o (IF self.docs # None
                     THEN <<Tag(S_docs, xml_escape(self.docs[1]))>> ELSE <<>>)
                 \o (IF self.ttl # None THEN <<Tag(S_ttl, IntStr(self.ttl[1]))>> ELSE <<>>)
                 \o (IF self.cloud # None THEN <<Cloud__str__(self.cloud[1])>> ELSE <<>>)
                 \o (IF self.image # None THEN <<Image__str__(self.image[1])>> ELSE <<>>)
                 \o [i \in 1..Len(heap[self._items]) |->
                        Item__str__(os[heap[self._items][i]], heap)]
                 \o [i \in 1..Len(heap[self._categories]) |->
                        Category__str__(heap[self._categories][i])]
                 \o <<CloseTag(S_channel)>>
    IN  Join(items, NL)

\* Channel.__str__
Channel__str__(self, heap, os) ==
    LET items == <<OpenTag(S_channel),
                   Tag(S_title, xml_escape(self.title)),
                   Tag(S_link, xml_escape(self.link)),
                   Tag(S_description, xml_escape(self.description))>>
                 \o (IF self.language # None
                     THEN <<Tag(S_language, xml_escape(self.language[1]))>> ELSE <<>>)
                 \o (IF self.copyright # None
                     THEN <<Tag(S_copyright, xml_escape(self.copyright[1]))>> ELSE <<>>)
                 \o (IF self.managing_editor # None
                     THEN <<Tag(S_managingEditor, xml_escape(self.managing_editor[1]))>> ELSE <<>>)
                 \o (IF self.web_master # None
                     THEN <<Tag(S_webMaster, xml_escape(self.web_master[1]))>> ELSE <<>>)
                 \o (IF self.pub_date # None
                     THEN <<Tag(S_pubDate, xml_escape(self.pub_date[1]))>> ELSE <<>>)
                 \o (IF self.last_build_date # None
                     THEN <<Tag(S_lastBuildDate, xml_escape(self.last_build_date[1]))>> ELSE <<>>)
                 \o (IF self.generator # None
                     THEN <<Tag(S_generator, xml_escape(self.generator[1]))>> ELSE <<>>)
                 \o (IF self.docs # None
                     THEN <<Tag(S_docs, xml_escape(self.docs[1]))>> ELSE <<>>)
                 \o (IF self.ttl # None THEN <<Tag(S_ttl, IntStr(self.ttl[1]))>> ELSE <<>>)
                 \o (IF self.cloud # None THEN <<Cloud__str__(self.cloud[1])>> ELSE <<>>)
                 \o (IF self.image # None THEN <<Image__str__(self.image[1])>> ELSE <<>>)
                 \o [i \in 1..Len(heap[self._categories]) |->
                        Category__str__(heap[self._categories][i])]
                 \o [i \in 1..Len(heap[self._items]) |->
                        Item__str__(os[heap[self._items][i]], heap)]
                 \o <<CloseTag(S_channel)>>
    IN  Join(items, NL)

\* RSS.__str__ without the newline before the closing tag
RSS__str__NoNewline(self, heap, os) ==
    S_rss_open \o <<NL>> \o Channel__str__(os[self.channel], heap, os) \o CloseTag(S_rss)

\* RSS.__str__
RSS__str__(self, heap, os) ==
    S_rss_open \o <<NL>> \o Channel__str__(os[self.channel], heap, os) \o <<NL>> \o CloseTag(S_rss)

\* str(o) of any element object
Str(o, heap, os) ==
    CASE o.cls = "Category" -> Category__str__(o)
      [] o.cls = "Cloud" -> Cloud__str__(o)
      [] o.cls = "Enclosure" -> Enclosure__str__(o)
      [] o.cls = "GUID" -> GUID__str__(o)
      [] o.cls = "Image" -> Image__str__(o)
      [] o.cls = "Source" -> Source__str__(o)
      [] o.cls = "Item" -> Item__str__(o, heap)
      [] o.cls = "Channel" -> Channel__str__(o, heap, os)
      [] o.cls = "RSS" -> RSS__str__(o, heap, os)

-----------------------------------------------------------------------------
(* Construction.                                                           *)

\* Category.__init__
Category(value, domain) == [cls |-> "Category", value |-> value, domain |-> domain]

\* Cloud.__init__
Cloud(domain, port, path, register_procedure, protocol) ==
    [cls |-> "Cloud", domain |-> domain, port |-> port, path |-> path,
     register_procedure |-> register_procedure, protocol |-> protocol]

\* Enclosure.__init__
Enclosure(url, length, type_) ==
    [cls |-> "Enclosure", url |-> url, length |-> length, type |-> type_]

\* GUID.__init__
GUID(value, is_perma_link) ==
    [cls |-> "GUID", value |-> value, is_perma_link |-> is_perma_link]

\* Image.__init__
Image(title, url, link) == [cls |-> "Image", url |-> url, title |-> title, link |-> link]

\* Source.__init__
Source(url, value) == [cls |-> "Source", url |-> url, value |-> value]

\* `given if given is not None else []`: the caller's list object whenever one
\* is given, empty or not
OrNewKeepsGiven(given, heap, fresh) ==
    IF given # None THEN given[1] ELSE fresh

\* `given or []`: the caller's list object itself when it is given and not
\* empty, otherwise the new empty list `fresh`
OrNew(given, heap, fresh) ==
    IF given # None /\ heap[given[1]] # <<>> THEN given[1] ELSE fresh

\* Item.__init__ with the keyword arguments in kw; heap is the list heap at
\* the call and fresh the id of the list a `[]` creates
Item(title, link, kw, heap, fresh) ==
    [cls |-> "Item", title |-> title, link |-> link,
     description |-> kw.description, author |-> kw.author,
     _categories |-> OrNew(kw.categories, heap, fresh),
     comments |-> kw.comments, enclosure |-> kw.enclosure, guid |-> kw.guid,
     pub_date |-> kw.pub_date, source |-> kw.source]

\* the defaults of Item.__init__'s optional arguments
ItemDefaults ==
    [description |-> None, author |-> None, categories |-> None, comments |-> None,
     enclosure |-> None, guid |-> None, pub_date |-> None, source |-> None]

\* Channel.__init__
Channel(title, link, description, kw, heap, freshC, freshI) ==
    [cls |-> "Channel", title |-> title, link |-> link, description |-> description,
     language |-> kw.language, copyright |-> kw.copyright_,
     managing_editor |-> kw.managing_editor, web_master |-> kw.web_master,
     pub_date |-> kw.pub_date, last_build_date |-> kw.last_build_date,
     generator |-> kw.generator, docs |-> kw.docs, cloud |-> kw.cloud, ttl |-> kw.ttl,
     image |-> kw.image,
     _categories |-> OrNew(kw.categories, heap, freshC),
     _items |-> OrNew(kw.items, heap, freshI)]

\* the default of GUID.__init__'s optional argument
GUIDDefaults == [is_perma_link |-> TRUE]

\* the defaults of Channel.__init__ with None as the default of generator
ChannelDefaultsNoGenerator ==
    [language |-> None, copyright_ |-> None, managing_editor |-> None, web_master |-> None,
     pub_date |-> None, last_build_date |-> None, generator |-> None,
     docs |-> None, cloud |-> None, ttl |-> None, image |-> None,
     categories |-> None, items |-> None]

\* the defaults of Channel.__init__'s optional arguments
ChannelDefaults ==
    [language |-> None, copyright_ |-> None, managing_editor |-> None, web_master |-> None,
     pub_date |-> None, last_build_date |-> None, generator |-> Some(S_markyp_rss),
     docs |-> None, cloud |-> None, ttl |-> None, image |-> None,
     categories |-> None, items |-> None]

\* RSS.__init__: channel is the id of a Channel object
RSS(channel) == [cls |-> "RSS", channel |-> channel]

-----------------------------------------------------------------------------
(* The values the model draws for each public attribute.                   *)

OptText == Opt(FieldTexts)
SomeEnclosure == Enclosure(<<"a">>, 42, <<"a">>)
SomeGUID == GUID(<<"a", "&">>, FALSE)
SomeSource == Source(<<"a">>, Some(<<"<", "a">>))
SomeCloud == Cloud(<<"a">>, 80, <<"a">>, <<"a">>, <<"a">>)
SomeImage == Image(Some(<<"a">>), None, Some(<<"&">>))

Fields(cls) ==
    CASE cls = "Category" -> [value |-> Texts, domain |-> Opt(AttrTexts)]
      [] cls = "Cloud" -> [domain |-> AttrTexts, port |-> {0, 80}, path |-> {<<"a">>},
                           register_procedure |-> {<<"a">>}, protocol |-> {<<"a">>, <<"\"">>}]
      [] cls = "Enclosure" -> [url |-> AttrTexts, length |-> {0, 42}, type |-> {<<"a">>, <<"<">>}]
      [] cls = "GUID" -> [value |-> Texts, is_perma_link |-> BOOLEAN]
      [] cls = "Image" -> [title |-> OptText, url |-> OptText, link |-> OptText]
      [] cls = "Source" -> [url |-> AttrTexts, value |-> Opt(Texts)]
      [] cls = "Item" -> [title |-> FieldTexts, link |-> FieldTexts,
                          description |-> OptText, author |-> OptText,
                          comments |-> OptText, pub_date |-> OptText,
                          enclosure |-> Opt({SomeEnclosure}), guid |-> Opt({SomeGUID}),
                          source |-> Opt({SomeSource})]
      [] cls = "Channel" -> [language |-> OptText, copyright |-> OptText,
                             managing_editor |-> OptText, web_master |-> OptText,
                             pub_date |-> OptText, last_build_date |-> OptText,
                             generator |-> OptText \cup {Some(S_markyp_rss)},
                             docs |-> OptText, ttl |-> Opt({0, 42})]

RetNone == [k |-> "None", s |-> <<>>, r |-> "-"]
RetStr(s) == [k |-> "str", s |-> s, r |-> "-"]
RetRef(r) == [k |-> "ref", s |-> <<>>, r |-> r]

\* history: the most recent operation: its name, the element it was called on
\* and whether a mutator got no argument
Op(op, self, args) == [op |-> op, self |-> self, empty |-> args = <<>>]
NoOp == Op("-", "-", <<>>)

-----------------------------------------------------------------------------
(* SpecElem: one element E of any class, built by its constructor, then    *)
(* attribute assignments and renderings.                                   *)

\* the objects each constructor builds from the arguments the model draws
Constructed(cls) ==
    CASE cls = "Category" -> {Category(v, d) : v \in Texts, d \in Opt(AttrTexts)}
      [] cls = "Cloud" -> {Cloud(d, 80, <<"a">>, <<"a">>, <<"a">>) : d \in AttrTexts}
      [] cls = "Enclosure" -> {Enclosure(u, 42, <<"a">>) : u \in AttrTexts}
      [] cls = "GUID" -> {GUID(v, GUIDDefaults.is_perma_link) : v \in Texts}
      [] cls = "Image" -> {Image(None, None, None)}
      [] cls = "Source" -> {Source(u, Some(v)) : u \in AttrTexts, v \in Texts}
      [] cls = "Item" -> {Item(t, l, ItemDefaults, <<>>, "E.c") : t \in FieldTexts, l \in FieldTexts}
      [] cls = "Channel" -> {Channel(t, t, t, ChannelDefaults, <<>>, "E.c", "E.i") : t \in FieldTexts}

Classes == {"Category", "Cloud", "Enclosure", "GUID", "Image", "Source", "Item", "Channel"}

InitElem ==
    /\ \E cls \in Classes : objs \in [{"E"} -> Constructed(cls)]
    /\ lists = [l \in {"E.c", "E.i"} |-> <<>>]
    /\ ret = RetNone
    /\ last = NoOp
    /\ expect = <<>>
    /\ solo = "-"

\* e.name = v
Assign(e, name, v) ==
    /\ objs' = [objs EXCEPT ![e][name] = v]
    /\ ret' = RetNone
    /\ last' = Op("assign", e, <<>>)
    /\ UNCHANGED <<lists, expect, solo>>

\* str(e)
Render(e) ==
    /\ ret' = RetStr(Str(objs[e], lists, objs))
    /\ last' = Op("str", e, <<>>)
    /\ UNCHANGED <<objs, lists, expect, solo>>

NextElem ==
    \/ \E e \in DOMAIN objs : \E name \in DOMAIN Fields(objs[e].cls) :
           \E v \in Fields(objs[e].cls)[name] : Assign(e, name, v)
    \/ \E e \in DOMAIN objs : Render(e)

SpecElem == InitElem /\ [][NextElem]_vars

-----------------------------------------------------------------------------
(* The chainable mutators.  self is the id of the element; the list object *)
(* the element refers to is changed in place.                              *)

\* list.append(x)
ListAppend(heap, l, x) == [heap EXCEPT ![l] = Append(@, x)]
\* list.extend(xs)
ListExtend(heap, l, xs) == [heap EXCEPT ![l] = @ \o xs]
\* list.clear()
ListClear(heap, l) == [heap EXCEPT ![l] = <<>>]

\* Item.add_category without its return statement
Item_add_categoryNoReturn(self, category) ==
    /\ lists' = ListAppend(lists, objs[self]._categories, category)
    /\ ret' = RetNone

\* Item.add_category
Item_add_category(self, category) ==
    /\ lists' = ListAppend(lists, objs[self]._categories, category)
    /\ ret' = RetRef(self)

\* Item.add_categories clearing the list first, as set_categories does
Item_add_categoriesClears(self, categories) ==
    /\ lists' = ListExtend(ListClear(lists, objs[self]._categories),
                           objs[self]._categories, categories)
    /\ ret' = RetRef(self)

\* Item.add_categories
Item_add_categories(self, categories) ==
    /\ lists' = ListExtend(lists, objs[self]._categories, categories)
    /\ ret' = RetRef(self)

\* Item.set_categories
Item_set_categories(self, categories) ==
    /\ lists' = ListExtend(ListClear(lists, objs[self]._categories),
                           objs[self]._categories, categories)
    /\ ret' = RetRef(self)

\* Channel.add_category
Channel_add_category(self, category) ==
    /\ lists' = ListAppend(lists, objs[self]._categories, category)
    /\ ret' = RetRef(self)

\* Channel.add_categories
Channel_add_categories(self, categories) ==
    /\ lists' = ListExtend(lists, objs[self]._categories, categories)
    /\ ret' = RetRef(self)

\* Channel.add_item
Channel_add_item(self, item) ==
    /\ lists' = ListAppend(lists, objs[self]._items, item)
    /\ ret' = RetRef(self)

\* Channel.add_items
Channel_add_items(self, items) ==
    /\ lists' = ListExtend(lists, objs[self]._items, items)
    /\ ret' = RetRef(self)

\* Channel.set_categories without the clear()
Channel_set_categoriesKeeps(self, categories) ==
    /\ lists' = ListExtend(lists, objs[self]._categories, categories)
    /\ ret' = RetRef(self)

\* Channel.set_categories
Channel_set_categories(self, categories) ==
    /\ lists' = ListExtend(ListClear(lists, objs[self]._categories),
                           objs[self]._categories, categories)
    /\ ret' = RetRef(self)

\* Channel.set_items
Channel_set_items(self, items) ==
    /\ lists' = ListExtend(ListClear(lists, objs[self]._items), objs[self]._items, items)
    /\ ret' = RetRef(self)

-----------------------------------------------------------------------------
(* Spec: an Item A, a Channel X and the RSS root R of X, built by their    *)
(* constructors from the caller's lists Lc (categories), Li (items), Le    *)
(* (an empty list) or from no list, then any sequence of mutator calls on  *)
(* A and X and of renderings.  B is a second Item, built without a list,   *)
(* which the caller puts into item lists.                                  *)

Items == {"A", "B"}
\* the elements the caller calls mutators on
Callees == {"A", "X"}
ListIds == {"Lc", "Li", "Le", "A.c", "B.c", "X.c", "X.i"}

Cat1 == Category(<<"a">>, None)
Cat2 == Category(<<"&">>, Some(<<"a">>))
Cats == {Cat1, Cat2}

\* the argument lists a call may pass
CatArgs == {<<>>, <<Cat1>>, <<Cat2, Cat1>>, <<Cat1, Cat1>>}
ItemArgs == {<<>>, <<"A">>, <<"B", "A">>}

\* the caller's lists before the elements are constructed
Heap0 == [l \in ListIds |-> IF l = "Lc" THEN <<Cat1>> ELSE IF l = "Li" THEN <<"B">> ELSE <<>>]

\* history: what the calls made on an element say its list is: the arguments of
\* the most recent set call (or the list it was constructed with), followed by
\* the arguments of the later add calls
Described(old, kind, args) == IF kind = "set" THEN args ELSE old \o args

\* history: the element all mutator calls so far were made on
Solo(self) == IF solo \in {"-", self} THEN self ELSE "mixed"

\* history: nothing is recorded once calls on different elements are mixed
NoExpect == [e \in Callees |-> [c |-> <<>>, i |-> <<>>]]

Init ==
    \E ca \in [Callees -> Opt({"Lc", "Le"})], ia \in Opt({"Li", "Le"}) :
        LET a == Item(<<"a", "<">>, <<"a">>,
                      [ItemDefaults EXCEPT !.description = Some(<<"&">>), !.author = Some(<<>>),
                                             !.enclosure = Some(SomeEnclosure),
                                             !.guid = Some(SomeGUID), !.pub_date = Some(<<"a">>),
                                             !.source = Some(SomeSource), !.categories = ca["A"]],
                      Heap0, "A.c")
            b == Item(<<>>, <<"a">>, ItemDefaults, Heap0, "B.c")
            x == Channel(<<"a", ">">>, <<"a">>, <<>>,
                         [ChannelDefaults EXCEPT !.language = Some(<<"a">>), !.ttl = Some(0),
                                                !.cloud = Some(SomeCloud),
                                                !.image = Some(SomeImage),
                                                !.categories = ca["X"], !.items = ia],
                         Heap0, "X.c", "X.i")
        IN  /\ lists = Heap0
            /\ objs = [e \in {"A", "B", "X", "R"} |->
                          CASE e = "A" -> a [] e = "B" -> b [] e = "X" -> x [] e = "R" -> RSS("X")]
            /\ ret = RetNone
            /\ last = NoOp
            /\ expect = [e \in Callees |->
                            CASE e = "A" -> [c |-> Heap0[a._categories], i |-> <<>>]
                              [] e = "X" -> [c |-> Heap0[x._categories], i |-> Heap0[x._items]]]
            /\ solo = "-"

\* a call of a category mutator: the history it leaves
CatCall(op, kind, self, args) ==
    /\ last' = Op(op, self, args)
    /\ solo' = Solo(self)
    /\ expect' = IF Solo(self) = "mixed" THEN NoExpect
                 ELSE [expect EXCEPT ![self].c = Described(@, kind, args)]
    /\ UNCHANGED objs

\* a call of an item mutator: the history it leaves
ItemCall(op, kind, self, args) ==
    /\ last' = Op(op, self, args)
    /\ solo' = Solo(self)
    /\ expect' = IF Solo(self) = "mixed" THEN NoExpect
                 ELSE [expect EXCEPT ![self].i = Described(@, kind, args)]
    /\ UNCHANGED objs

RECURSIVE Cells(_, _)
\* the number of entries the lists ls of the heap hold together
Cells(heap, ls) ==
    IF ls = {} THEN 0
    ELSE LET l == CHOOSE x \in ls : TRUE IN Len(heap[l]) + Cells(heap, ls \ {l})

\* the heap stays within the model's bound after the call
Fits(l, kind, args) ==
    Cells(lists, ListIds) - (IF kind = "set" THEN Len(lists[l]) ELSE 0) + Len(args) <= MaxCells

\* str(e) emptying the category list it has rendered
StrOfConsuming(e) ==
    /\ ret' = RetStr(Str(objs[e], lists, objs))
    /\ last' = Op("str", e, <<>>)
    /\ lists' = IF objs[e].cls \in {"Item", "Channel"}
                THEN ListClear(lists, objs[e]._categories) ELSE lists
    /\ UNCHANGED <<objs, expect, solo>>

\* str(e)
StrOf(e) ==
    /\ ret' = RetStr(Str(objs[e], lists, objs))
    /\ last' = Op("str", e, <<>>)
    /\ UNCHANGED <<objs, lists, expect, solo>>

Next ==
    \/ \E self \in Callees \cap Items, c \in Cats :
          /\ Fits(objs[self]._categories, "add", <<c>>)
          /\ Item_add_category(self, c)
          /\ CatCall("add_category", "add", self, <<c>>)
    \/ \E self \in Callees \cap Items, cs \in CatArgs :
          /\ Fits(objs[self]._categories, "add", cs)
          /\ Item_add_categories(self, cs)
          /\ CatCall("add_categories", "add", self, cs)
    \/ \E self \in Callees \cap Items, cs \in CatArgs :
          /\ Fits(objs[self]._categories, "set", cs)
          /\ Item_set_categories(self, cs)
          /\ CatCall("set_categories", "set", self, cs)
    \/ \E self \in Callees \ Items, c \in Cats :
          /\ Fits(objs[self]._categories, "add", <<c>>)
          /\ Channel_add_category(self, c)
          /\ CatCall("add_category", "add", self, <<c>>)
    \/ \E self \in Callees \ Items, cs \in CatArgs :
          /\ Fits(objs[self]._categories, "add", cs)
          /\ Channel_add_categories(self, cs)
          /\ CatCall("add_categories", "add", self, cs)
    \/ \E self \in Callees \ Items, cs \in CatArgs :
          /\ Fits(objs[self]._categories, "set", cs)
          /\ Channel_set_categories(self, cs)
          /\ CatCall("set_categories", "set", self, cs)
    \/ \E self \in Callees \ Items, i \in Items :
          /\ Fits(objs[self]._items, "add", <<i>>)
          /\ Channel_add_item(self, i)
          /\ ItemCall("add_item", "add", self, <<i>>)
    \/ \E self \in Callees \ Items, is \in ItemArgs :
          /\ Fits(objs[self]._items, "add", is)
          /\ Channel_add_items(self, is)
          /\ ItemCall("add_items", "add", self, is)
    \/ \E self \in Callees \ Items, is \in ItemArgs :
          /\ Fits(objs[self]._items, "set", is)
          /\ Channel_set_items(self, is)
          /\ ItemCall("set_items", "set", self, is)
    \/ \E e \in {"A", "B", "X", "R"} : StrOf(e)

Spec == Init /\ [][Next]_vars

-----------------------------------------------------------------------------
(* SpecTree: an element E, an Item or a Channel built with or without the  *)
(* caller's lists of categories and items, the Items I1 and I2 that the    *)
(* item list holds, a second Channel K and the RSS root R; then attribute  *)
(* assignments on E and R and renderings of E and R.                       *)

TreeListIds == {"Lc", "Li", "L1", "E.c", "E.i", "I1.c", "I2.c", "K.c", "K.i"}

\* the caller's lists before the elements are constructed
TreeHeap0 ==
    [l \in TreeListIds |->
        CASE l = "Lc" -> <<Cat2, Cat1>>
          [] l = "Li" -> <<"I2", "I1">>
          [] l = "L1" -> <<Cat1>>
          [] OTHER -> <<>>]

\* the Channels an RSS root may refer to
TreeChannels(os) == {e \in {"E", "K"} : os[e].cls = "Channel"}

\* the attributes the model assigns, with the values it draws for them
TreeFields(cls, os) ==
    CASE cls = "Item" -> Fields("Item")
      [] cls = "Channel" -> [cloud |-> Opt({SomeCloud}),
                             image |-> Opt({SomeImage}),
                             generator |-> Opt({S_markyp_rss}),
                             ttl |-> Opt({0})]
      [] cls = "RSS" -> [channel |-> TreeChannels(os)]

InitTree ==
    \E cls \in {"Item", "Channel"}, ca \in Opt({"Lc"}), ia \in Opt({"Li"}) :
        LET e == IF cls = "Item"
                 THEN Item(<<"a", "<">>, <<"a">>, [ItemDefaults EXCEPT !.categories = ca],
                           TreeHeap0, "E.c")
                 ELSE Channel(<<"a", ">">>, <<"a">>, <<>>,
                              [ChannelDefaults EXCEPT !.categories = ca, !.items = ia],
                              TreeHeap0, "E.c", "E.i")
            i1 == Item(<<"a">>, <<"a">>,
                       [ItemDefaults EXCEPT !.categories = Some("L1"),
                                              !.pub_date = Some(<<"a">>)],
                       TreeHeap0, "I1.c")
            i2 == Item(<<>>, <<"a">>, [ItemDefaults EXCEPT !.guid = Some(SomeGUID)],
                       TreeHeap0, "I2.c")
            k == Channel(<<"a">>, <<"a">>, <<"a">>, ChannelDefaults, TreeHeap0, "K.c", "K.i")
        IN  /\ (cls = "Item" => ia = None)
            /\ lists = TreeHeap0
            /\ objs = [x \in {"E", "I1", "I2", "K", "R"} |->
                          CASE x = "E" -> e [] x = "I1" -> i1 [] x = "I2" -> i2
                            [] x = "K" -> k [] x = "R" -> RSS("K")]
            /\ ret = RetNone
            /\ last = NoOp
            /\ expect = <<>>
            /\ solo = "-"

NextTree ==
    \/ \E e \in {"E", "R"} : \E name \in DOMAIN TreeFields(objs[e].cls, objs) :
           \E v \in TreeFields(objs[e].cls, objs)[name] : Assign(e, name, v)
    \/ \E e \in {"E", "R"} : Render(e)

SpecTree == InitTree /\ [][NextTree]_vars

-----------------------------------------------------------------------------
(* SpecFresh: the Items A and B and the Channels X and Y, each constructed *)
(* without a list argument (None) or each with the caller's empty list Le,  *)
(* then any interleaving of mutator calls on the four and of renderings.    *)

FreshItems == {"A", "B"}
FreshChannels == {"X", "Y"}
FreshListIds == {"Le", "A.c", "B.c", "X.c", "X.i", "Y.c", "Y.i"}

\* the argument lists a call may pass
FreshCatArgs == {<<>>, <<Cat2, Cat1>>}
FreshItemArgs == {<<>>, <<"B", "A">>}

\* the caller's lists before the elements are constructed
FreshHeap0 == [l \in FreshListIds |-> <<>>]

\* history: expect is the list argument the elements were constructed with
InitFresh ==
    \E given \in Opt({"Le"}) :
        /\ lists = FreshHeap0
        /\ objs = [e \in FreshItems \cup FreshChannels |->
                      IF e \in FreshItems
                      THEN Item(<<"a">>, <<"a">>,
                                [ItemDefaults EXCEPT !.categories = given],
                                FreshHeap0, IF e = "A" THEN "A.c" ELSE "B.c")
                      ELSE Channel(<<"a">>, <<"a">>, <<>>,
                                   [ChannelDefaults EXCEPT !.categories = given,
                                                          !.items = given],
                                   FreshHeap0,
                                   IF e = "X" THEN "X.c" ELSE "Y.c",
                                   IF e = "X" THEN "X.i" ELSE "Y.i")]
        /\ ret = RetNone
        /\ last = NoOp
        /\ expect = given
        /\ solo = "-"

\* a mutator call: the history it leaves
FreshCall(op, self, args) ==
    /\ last' = Op(op, self, args)
    /\ UNCHANGED <<objs, expect, solo>>

\* the heap stays within the model's bound after the call
FreshFits(l, kind, args) ==
    Cells(lists, FreshListIds) - (IF kind = "set" THEN Len(lists[l]) ELSE 0) + Len(args)
        <= MaxCells

NextFresh ==
    \/ \E self \in FreshItems, c \in {Cat1} :
          /\ FreshFits(objs[self]._categories, "add", <<c>>)
          /\ Item_add_category(self, c)
          /\ FreshCall("add_category", self, <<c>>)
    \/ \E self \in FreshItems, cs \in FreshCatArgs :
          /\ FreshFits(objs[self]._categories, "add", cs)
          /\ Item_add_categories(self, cs)
          /\ FreshCall("add_categories", self, cs)
    \/ \E self \in FreshItems, cs \in FreshCatArgs :
          /\ FreshFits(objs[self]._categories, "set", cs)
          /\ Item_set_categories(self, cs)
          /\ FreshCall("set_categories", self, cs)
    \/ \E self \in FreshChannels, c \in {Cat1} :
          /\ FreshFits(objs[self]._categories, "add", <<c>>)
          /\ Channel_add_category(self, c)
          /\ FreshCall("add_category", self, <<c>>)
    \/ \E self \in FreshChannels, cs \in FreshCatArgs :
          /\ FreshFits(objs[self]._categories, "add", cs)
          /\ Channel_add_categories(self, cs)
          /\ FreshCall("add_categories", self, cs)
    \/ \E self \in FreshChannels, cs \in FreshCatArgs :
          /\ FreshFits(objs[self]._categories, "set", cs)
          /\ Channel_set_categories(self, cs)
          /\ FreshCall("set_categories", self, cs)
    \/ \E self \in FreshChannels, i \in {"A"} :
          /\ FreshFits(objs[self]._items, "add", <<i>>)
          /\ Channel_add_item(self, i)
          /\ FreshCall("add_item", self, <<i>>)
    \/ \E self \in FreshChannels, is \in FreshItemArgs :
          /\ FreshFits(objs[self]._items, "add", is)
          /\ Channel_add_items(self, is)
          /\ FreshCall("add_items", self, is)
    \/ \E self \in FreshChannels, is \in FreshItemArgs :
          /\ FreshFits(objs[self]._items, "set", is)
          /\ Channel_set_items(self, is)
          /\ FreshCall("set_items", self, is)
    \/ \E e \in FreshItems \cup FreshChannels : StrOf(e)

SpecFresh == InitFresh /\ [][NextFresh]_vars

-----------------------------------------------------------------------------
(* Notions the properties are stated in.                                   *)

RECURSIVE Flatten(_)
\* the concatenation of a sequence of texts
Flatten(ss) == IF ss = <<>> THEN <<>> ELSE ss[1] \o Flatten(Tail(ss))

\* the replacement of one character of text content
EscChar(c) == CASE c = "&" -> AMP [] c = "<" -> LTE [] c = ">" -> GTE [] OTHER -> <<c>>
\* a text with every character replaced on its own
CharEscape(t) == Flatten([i \in 1..Len(t) |-> EscChar(t[i])])

IsPrefix(p, t) == Len(p) <= Len(t) /\ SubSeq(t, 1, Len(p)) = p
IsSuffix(p, t) == Len(p) <= Len(t) /\ SubSeq(t, Len(t) - Len(p) + 1, Len(t)) = p

RECURSIVE LinesFrom(_, _, _)
\* the lines of t from position start on, nls the positions of its newlines
\* from there on (each level of the recursion evaluates its arguments once)
LinesFrom(t, nls, start) ==
    IF nls = {} THEN <<SubSeq(t, start, Len(t))>>
    ELSE LET i == CHOOSE n \in nls : \A m \in nls : n <= m
         IN  <<SubSeq(t, start, i - 1)>>
             \o (CHOOSE r \in {LinesFrom(s, rest, j) : s \in {t}, rest \in {nls \ {i}},
                                                        j \in {i + 1}} : TRUE)
\* the positions of the newlines of a text
NewlinesOf(t) == {i \in 1..Len(t) : t[i] = NL}
\* the lines of a rendering
Lines(t) ==
    CHOOSE ls \in UNION {{LinesFrom(s, nls, 1) : nls \in {NewlinesOf(s)}} : s \in {t}} : TRUE
\* the number of lines of a rendering
LineCount(t) == CHOOSE n \in {1 + Cardinality(NewlinesOf(s)) : s \in {t}} : TRUE

Range(f) == {f[i] : i \in DOMAIN f}

\* the object of SpecElem
E == objs["E"]
\* E was rendered by the most recent operation
Rendered(cls) == E.cls = cls /\ last.op = "str" /\ ret.k = "str"

-----------------------------------------------------------------------------
(* Properties of the rendering of single elements, under SpecElem.         *)

\* C1: a Source with url U and text value V renders exactly
\* <source url="U">E</source>, where E is V with each &, < and > replaced once,
\* and nothing else changed.
C1_SourceValueEscapedOnce ==
    (Rendered("Source") /\ E.value # None) =>
        ret.s = S_source_open \o E.url \o S_quote_gt
                \o CharEscape(E.value[1]) \o CloseTag(S_source)

\* the entity references a well-formed rendering may hold
Entities == {AMP, LTE, GTE, <<"&", "q", "u", "o", "t", ";">>}
EntityAt(t, i) == \E ent \in Entities : IsPrefix(ent, SubSeq(t, i, Len(t)))

\* One step of a scan of XML markup.  The scanner is in character data
\* ("text"), inside a tag ("tag"), behind the = of an attribute ("eq"), inside
\* a quoted attribute value ("attr") or behind its closing quote ("aq").
ScanStep(mode, t, i) ==
    LET c == t[i] IN
    CASE mode = "text" ->
            IF c = "<" THEN "tag"
            ELSE IF c = ">" THEN "bad"
            ELSE IF c = "&" THEN (IF EntityAt(t, i) THEN "text" ELSE "bad")
            ELSE "text"
      [] mode = "tag" ->
            IF c = "=" THEN "eq"
            ELSE IF c = ">" THEN "text"
            ELSE IF c \in {"<", "&", QUOTE} THEN "bad"
            ELSE "tag"
      [] mode = "eq" -> IF c = QUOTE THEN "attr" ELSE "bad"
      [] mode = "attr" ->
            IF c = QUOTE THEN "aq"
            ELSE IF c = "<" THEN "bad"
            ELSE IF c = "&" THEN (IF EntityAt(t, i) THEN "attr" ELSE "bad")
            ELSE "attr"
      [] mode = "aq" ->
            IF c \in {" ", "/"} THEN "tag"
            ELSE IF c = ">" THEN "text"
            ELSE "bad"
      [] OTHER -> "bad"

RECURSIVE Scan(_, _, _, _)
\* the mode the scan of t[lo..hi] ends in
Scan(mode, t, lo, hi) ==
    IF lo > hi THEN mode
    ELSE IF lo = hi THEN ScanStep(mode, t, lo)
    ELSE LET mid == (lo + hi) \div 2
         IN  Scan(Scan(mode, t, lo, mid), t, mid + 1, hi)

\* markup whose tags, attribute values and character data are delimited as
\* XML requires, with no raw <, > or & in character data and no raw <, & or
\* quote inside an attribute value
WellFormed(t) == Scan("text", t, 1, Len(t)) = "text"

\* C3: every rendering is well-formed XML: no <, > or & of a field value is
\* unescaped in text content, and every attribute value stays valid whatever
\* the field holds, <, & and the double quote included.
C3_RenderingWellFormed ==
    (last.op = "str" /\ ret.k = "str") => WellFormed(ret.s)

\* C5: a Category with value V and domain D renders exactly
\* <category>escape(V)</category> when D is null or the empty string, and
\* exactly <category domain="D">escape(V)</category> otherwise.
C5_CategoryDomain ==
    Rendered("Category") =>
        ret.s = IF E.domain = None \/ E.domain = Some(<<>>)
                THEN OpenTag(S_category) \o CharEscape(E.value) \o CloseTag(S_category)
                ELSE S_category_open \o S_domain_attr \o E.domain[1] \o S_quote_gt
                     \o CharEscape(E.value) \o CloseTag(S_category)

\* a Category with the empty string as domain and a text to escape was rendered
C5_Witness ==
    /\ Rendered("Category")
    /\ E.domain = Some(<<>>)
    /\ E.value = <<"<", "&">>
    /\ ret.s = OpenTag(S_category) \o LTE \o AMP \o CloseTag(S_category)

\* the text fields of an object with their tags: <<tag, Optional text>>
TextFieldsOf(o) ==
    CASE o.cls = "Image" -> << <<S_title, o.title>>, <<S_url, o.url>>, <<S_link, o.link>> >>
      [] o.cls = "Item" -> << <<S_title, Some(o.title)>>, <<S_link, Some(o.link)>>,
                              <<S_description, o.description>>, <<S_author, o.author>>,
                              <<S_comments, o.comments>>, <<S_pubDate, o.pub_date>> >>
      [] o.cls = "Channel" -> << <<S_title, Some(o.title)>>, <<S_link, Some(o.link)>>,
                                 <<S_description, Some(o.description)>>,
                                 <<S_language, o.language>>, <<S_copyright, o.copyright>>,
                                 <<S_managingEditor, o.managing_editor>>,
                                 <<S_webMaster, o.web_master>>, <<S_pubDate, o.pub_date>>,
                                 <<S_lastBuildDate, o.last_build_date>>,
                                 <<S_generator, o.generator>>, <<S_docs, o.docs>> >>
      [] OTHER -> << >>

\* C6: the escaped text content of the Category, GUID, Image, Item and
\* Channel tags is the character-by-character replacement of &, < and > in
\* the original text: <&> gives &lt;&amp;&gt;, nothing is escaped twice.
C6_EscapingCharByChar ==
    /\ Rendered("Category") =>
           IsSuffix(<<">">> \o CharEscape(E.value) \o CloseTag(S_category), ret.s)
    /\ Rendered("GUID") =>
           IsSuffix(S_quote_gt \o CharEscape(E.value) \o CloseTag(S_guid), ret.s)
    /\ (Rendered("Image") \/ Rendered("Item") \/ Rendered("Channel")) =>
           LET ls == Range(Lines(ret.s)) IN
           \A i \in DOMAIN TextFieldsOf(E) :
               LET f == TextFieldsOf(E)[i] IN
               f[2] # None => Tag(f[1], CharEscape(f[2][1])) \in ls

\* an Item whose title holds <, & and > was rendered
C6_Witness ==
    /\ Rendered("Item")
    /\ E.title = <<"a", "<", "&", ">">>
    /\ Tag(S_title, <<"a">> \o LTE \o AMP \o GTE) \in Range(Lines(ret.s))

\* the optional scalar text fields of an Item or Channel with their tags
OptionalTextFieldsOf(o) ==
    CASE o.cls = "Item" -> << <<S_description, o.description>>, <<S_author, o.author>>,
                              <<S_comments, o.comments>>, <<S_pubDate, o.pub_date>> >>
      [] o.cls = "Channel" -> << <<S_language, o.language>>, <<S_copyright, o.copyright>>,
                                 <<S_managingEditor, o.managing_editor>>,
                                 <<S_webMaster, o.web_master>>, <<S_pubDate, o.pub_date>>,
                                 <<S_lastBuildDate, o.last_build_date>>,
                                 <<S_generator, o.generator>>, <<S_docs, o.docs>> >>
      [] OTHER -> << >>

\* the lines of a rendering that open with the tag
TagLines(ls, name) == SelectSeq(ls, LAMBDA l : IsPrefix(OpenTag(name), l))

RECURSIVE Decimal(_)
\* the decimal digits of a natural number
Decimal(n) ==
    LET d == CASE n % 10 = 0 -> "0" [] n % 10 = 1 -> "1" [] n % 10 = 2 -> "2"
               [] n % 10 = 3 -> "3" [] n % 10 = 4 -> "4" [] n % 10 = 5 -> "5"
               [] n % 10 = 6 -> "6" [] n % 10 = 7 -> "7" [] n % 10 = 8 -> "8"
               [] OTHER -> "9"
    IN  IF n < 10 THEN <<d>> ELSE Decimal(n \div 10) \o <<d>>

\* C4: the tag of an optional scalar field of an Item or Channel is in the
\* rendering iff the field is not null; an empty string gives an empty tag
\* pair, ttl 0 gives <ttl>0</ttl>; text is escaped, ttl is decimal text.
C4_OptionalTagIffNotNull ==
    (Rendered("Item") \/ Rendered("Channel")) =>
        LET ls == Lines(ret.s) IN
        /\ \A i \in DOMAIN OptionalTextFieldsOf(E) :
               LET f == OptionalTextFieldsOf(E)[i] IN
               TagLines(ls, f[1]) = IF f[2] = None THEN <<>>
                                    ELSE <<Tag(f[1], CharEscape(f[2][1]))>>
        /\ E.cls = "Channel" =>
               TagLines(ls, S_ttl) = IF E.ttl = None THEN <<>>
                                     ELSE <<Tag(S_ttl, Decimal(E.ttl[1]))>>

\* a Channel with ttl 0, the empty string as docs and no language was rendered
C4_Witness ==
    /\ Rendered("Channel")
    /\ E.ttl = Some(0) /\ E.docs = Some(<<>>) /\ E.language = None
    /\ LET ls == Range(Lines(ret.s)) IN
       /\ <<"<", "t", "t", "l", ">", "0", "<", "/", "t", "t", "l", ">">> \in ls
       /\ OpenTag(S_docs) \o CloseTag(S_docs) \in ls
       /\ \A l \in ls : ~IsPrefix(OpenTag(S_language), l)

-----------------------------------------------------------------------------
(* Properties of the lists of Item and Channel, under Spec.                *)

Mutators == {"add_category", "add_categories", "set_categories",
             "add_item", "add_items", "set_items"}

\* the list objects of an element
ListsOf(e) == IF objs[e].cls = "Channel" THEN {objs[e]._categories, objs[e]._items}
              ELSE {objs[e]._categories}

\* the Channel b holds the Item e in its item list
Holds(b, e) == objs[b].cls = "Channel" /\ e \in Range(lists[objs[b]._items])

\* C2: an Item or Channel owns its lists exclusively: a mutator call on one
\* element leaves the lists of every other element, the rendering of every
\* other element that does not hold it, and the lists the caller passed to
\* the constructors as they were.
C2_ExclusiveOwnership ==
    [][\A self \in Callees :
          (last'.self = self /\ last'.op \in Mutators) =>
              /\ \A l \in {"Lc", "Li", "Le"} : lists'[l] = lists[l]
              /\ \A b \in Callees \ {self} :
                    /\ \A l \in ListsOf(b) : lists'[l] = lists[l]
                    /\ ~Holds(b, self) => Str(objs'[b], lists', objs') = Str(objs[b], lists, objs)]_vars

\* C7: the list of an element is what the calls made on it describe: the
\* arguments of the most recent set call (or the constructor's list),
\* followed by the arguments of the later add calls, in call and argument
\* order; the rendering ends with the tags of these entries in that order.
\* (The history is recorded as long as all calls were made on one element.)
C7_ListIsWhatCallsDescribe ==
    solo # "mixed" =>
        \A e \in Callees :
            LET cs == expect[e].c
                is == expect[e].i
                tags == [i \in 1..Len(cs) |-> Category__str__(cs[i])]
                       \o [i \in 1..Len(is) |-> Item__str__(objs[is[i]], lists)]
                close == IF objs[e].cls = "Channel" THEN S_channel ELSE S_item
            IN  /\ lists[objs[e]._categories] = cs
                /\ objs[e].cls = "Channel" => lists[objs[e]._items] = is
                /\ IsSuffix(<<NL>> \o Join(tags \o <<CloseTag(close)>>, NL),
                            Str(objs[e], lists, objs))

\* C8: add_categories() and add_items() without arguments leave the lists
\* of the element and its rendering as they were.
C8_EmptyAddIsNoOp ==
    [][\A e \in Callees :
          (last'.self = e /\ last'.op \in {"add_categories", "add_items"} /\ last'.empty) =>
              /\ \A l \in ListsOf(e) : lists'[l] = lists[l]
              /\ Str(objs'[e], lists', objs') = Str(objs[e], lists, objs)]_vars

\* add_categories() without arguments was called on a Channel with categories
C8_Witness ==
    /\ last = Op("add_categories", "X", <<>>)
    /\ lists[objs["X"]._categories] = <<Cat2, Cat1>>
    /\ ret = RetRef("X")

\* the lists that put each line of the rendering of an Item there: its
\* category list for the category tags, which are the last lines before the
\* closing tag
ItemProvenance(o) ==
    CHOOSE p \in {[j \in 1..n |-> IF n - 1 - k < j /\ j < n THEN {o._categories} ELSE {}] :
                     n \in {LineCount(Item__str__(o, lists))},
                     k \in {Len(lists[o._categories])}} : TRUE

\* the same for a Channel: its category tags, then the blocks of its items,
\* which the item list put there, then the closing tag
ChannelProvenance(o) ==
    LET is == lists[o._items]
        Block(i) == CHOOSE q \in {[j \in DOMAIN p |-> p[j] \cup {o._items}] :
                                     p \in {ItemProvenance(objs[is[i]])}} : TRUE
    IN  CHOOSE p \in {[j \in 1..(n - 1 - Len(blocks) - k) |-> {}]
                      \o [j \in 1..k |-> {o._categories}] \o blocks \o <<{}>> :
                         n \in {LineCount(Channel__str__(o, lists, objs))},
                         k \in {Len(lists[o._categories])},
                         blocks \in {Flatten([i \in 1..Len(is) |-> Block(i)])}} : TRUE

Provenance(o) == IF o.cls = "Channel" THEN ChannelProvenance(o) ELSE ItemProvenance(o)

\* the rendering after is the rendering before without the lines the list l
\* put there: the other lines are all there, as they were and in their order
LinesDropped(before, prov, l, after) ==
    \A bl \in {Lines(before)}, al \in {Lines(after)}, pv \in {prov} :
        \A dropped \in {{j \in DOMAIN bl : l \in pv[j]}} :
            /\ Len(pv) = Len(bl)
            /\ Len(al) = Len(bl) - Cardinality(dropped)
            /\ \A j \in DOMAIN bl \ dropped :
                   al[j - Cardinality({m \in dropped : m < j})] = bl[j]

\* C9: set_categories() and set_items() without arguments leave the list
\* empty; the next rendering of the element is the previous one without the
\* lines that list contributed, every other line as it was.
C9_EmptySetClears ==
    [][\A e \in Callees :
          (last'.self = e /\ last'.op \in {"set_categories", "set_items"} /\ last'.empty) =>
              \A l \in ListsOf(e) :
                  (l = objs[e]._categories <=> last'.op = "set_categories") =>
                      /\ lists'[l] = <<>>
                      /\ LinesDropped(Str(objs[e], lists, objs), Provenance(objs[e]), l,
                                      Str(objs'[e], lists', objs'))]_vars

\* set_items() without arguments was called on a Channel built from the
\* caller's item list, which has categories of its own
C9_Witness ==
    /\ last = Op("set_items", "X", <<>>)
    /\ objs["X"]._items = "Li" /\ lists["Li"] = <<>>
    /\ lists[objs["X"]._categories] # <<>>

\* C10: every mutator returns the object it was called on, whatever the
\* arguments, none included.
C10_MutatorsReturnSelf ==
    last.op \in Mutators => ret = RetRef(last.self)

\* set_categories() without arguments was called on the Item and returned it
C10_Witness ==
    /\ last = Op("set_categories", "A", <<>>)
    /\ ret = RetRef("A")
    /\ lists[objs["A"]._categories] = <<>>

-----------------------------------------------------------------------------
(* Properties of the order of the lines of a rendering.                    *)

\* the lines of the present optional scalar fields of a Channel, in the order
\* language, copyright, managingEditor, webMaster, pubDate, lastBuildDate,
\* generator, docs, ttl
PresentOptional(o) ==
    Flatten([i \in DOMAIN OptionalTextFieldsOf(o) |->
                LET f == OptionalTextFieldsOf(o)[i] IN
                IF f[2] = None THEN <<>> ELSE <<Tag(f[1], CharEscape(f[2][1]))>>])
    \o (IF o.ttl = None THEN <<>> ELSE <<Tag(S_ttl, Decimal(o.ttl[1]))>>)

\* the first lines of the rendering of a Channel
ChannelHead(o) ==
    <<OpenTag(S_channel), Tag(S_title, CharEscape(o.title)), Tag(S_link, CharEscape(o.link)),
      Tag(S_description, CharEscape(o.description))>>

\* C11: the rendering of a Channel is decided by its current field values,
\* whatever the order they were assigned in: after the title, link and
\* description come the tags of the present optional fields in the order
\* language, copyright, managingEditor, webMaster, pubDate, lastBuildDate,
\* generator, docs, ttl, and (for a Channel without cloud, image, categories
\* and items) the closing tag.
C11_ChannelFieldOrder ==
    Rendered("Channel") =>
        LET ls == Lines(ret.s)
            front == ChannelHead(E) \o PresentOptional(E)
        IN  /\ IsPrefix(front, ls)
            /\ (/\ E.cloud = None /\ E.image = None
                /\ lists[E._categories] = <<>> /\ lists[E._items] = <<>>)
               => ls = front \o <<CloseTag(S_channel)>>

\* a Channel whose docs, language and ttl, all set after construction, are
\* rendered language first, then docs, then ttl
C11_Witness ==
    /\ Rendered("Channel")
    /\ E.docs = Some(<<>>) /\ E.language = Some(<<"a", "<", "&", ">">>) /\ E.ttl = Some(42)
    /\ E.generator = None /\ E.copyright = None /\ E.pub_date = None
    /\ LET ls == Lines(ret.s) IN
       /\ Len(ls) = 8
       /\ ls[5] = Tag(S_language, <<"a">> \o LTE \o AMP \o GTE)
       /\ ls[6] = OpenTag(S_docs) \o CloseTag(S_docs)
       /\ ls[7] = <<"<", "t", "t", "l", ">", "4", "2", "<", "/", "t", "t", "l", ">">>

\* the element e, an object of the class, was rendered by the most recent
\* operation
RenderedOf(e, cls) == last = Op("str", e, <<>>) /\ objs[e].cls = cls /\ ret.k = "str"

\* the line of an optional text field, if it is present
OptionalLine(name, v) == IF v = None THEN <<>> ELSE <<Tag(name, CharEscape(v[1]))>>

\* the lines of the categories of a list, in list order
CategoryLines(cs) == [i \in 1..Len(cs) |-> Category__str__(cs[i])]

\* the lines of an Item in the order title, link, description, author,
\* comments, enclosure, guid, pubDate, source, categories
ItemLines(o, heap) ==
    <<OpenTag(S_item), Tag(S_title, CharEscape(o.title)), Tag(S_link, CharEscape(o.link))>>
    \o OptionalLine(S_description, o.description)
    \o OptionalLine(S_author, o.author)
    \o OptionalLine(S_comments, o.comments)
    \o (IF o.enclosure = None THEN <<>> ELSE <<Enclosure__str__(o.enclosure[1])>>)
    \o (IF o.guid = None THEN <<>> ELSE <<GUID__str__(o.guid[1])>>)
    \o OptionalLine(S_pubDate, o.pub_date)
    \o (IF o.source = None THEN <<>> ELSE <<Source__str__(o.source[1])>>)
    \o CategoryLines(heap[o._categories])
    \o <<CloseTag(S_item)>>

\* C12: the rendering of an Item is <item>, title, link, then the non-null
\* ones of description, author, comments, enclosure, guid, pubDate, source in
\* that order, then every category in list order, then </item>, joined by
\* single newlines.
C12_ItemLineOrder ==
    RenderedOf("E", "Item") => ret.s = Join(ItemLines(E, lists), NL)

\* an Item with two categories, without comments and guid, with description,
\* enclosure, pubDate and source was rendered: the categories are its last
\* lines before </item>
C12_Witness ==
    /\ RenderedOf("E", "Item")
    /\ E.comments = None /\ E.guid = None /\ E.author = None
    /\ E.description # None /\ E.enclosure # None /\ E.pub_date # None /\ E.source # None
    /\ lists[E._categories] = <<Cat2, Cat1>>
    /\ LET ls == Lines(ret.s) IN
       /\ Len(ls) = 10
       /\ IsPrefix(OpenTag(S_description), ls[4])
       /\ IsPrefix(S_enclosure_open, ls[5])
       /\ IsPrefix(OpenTag(S_pubDate), ls[6])
       /\ IsPrefix(S_source_open, ls[7])
       /\ ls[8] = Category__str__(Cat2) /\ ls[9] = Category__str__(Cat1)
       /\ ls[10] = CloseTag(S_item)

\* C13: in the rendering of a Channel the cloud line, if there is one, is
\* followed by the image block, if there is one, then by the category lines
\* in list order, then by the item blocks in list order, and </channel> is
\* the last line.
C13_ChannelBlockOrder ==
    RenderedOf("E", "Channel") =>
        LET is == lists[E._items] IN
        ret.s = Join(ChannelHead(E) \o PresentOptional(E)
                     \o (IF E.cloud = None THEN <<>> ELSE <<Cloud__str__(E.cloud[1])>>)
                     \o (IF E.image = None THEN <<>> ELSE <<Image__str__(E.image[1])>>)
                     \o CategoryLines(lists[E._categories])
                     \o [i \in 1..Len(is) |-> Join(ItemLines(objs[is[i]], lists), NL)]
                     \o <<CloseTag(S_channel)>>, NL)

\* a Channel with a cloud, an image, two categories and two items was
\* rendered: cloud, image block, categories, item blocks, </channel>
C13_Witness ==
    /\ RenderedOf("E", "Channel")
    /\ E.cloud # None /\ E.image # None /\ E.ttl = None /\ E.generator # None
    /\ lists[E._categories] = <<Cat2, Cat1>> /\ lists[E._items] = <<"I2", "I1">>
    /\ LET ls == Lines(ret.s) IN
       /\ Len(ls) = 24
       /\ IsPrefix(S_cloud_open, ls[6])
       /\ ls[7] = OpenTag(S_image) /\ ls[10] = CloseTag(S_image)
       /\ ls[11] = Category__str__(Cat2) /\ ls[12] = Category__str__(Cat1)
       /\ ls[13] = OpenTag(S_item) /\ ls[17] = CloseTag(S_item)
       /\ ls[18] = OpenTag(S_item) /\ ls[23] = CloseTag(S_item)
       /\ ls[24] = CloseTag(S_channel)

\* the generator line of a Channel built without a generator argument
DefaultGeneratorLine ==
    OpenTag(S_generator) \o <<"m", "a", "r", "k", "y", "p", "_", "r", "s", "s">>
    \o CloseTag(S_generator)

\* C14: a Channel as the constructor builds it from title, link and
\* description alone renders <channel>, title, link, description,
\* <generator>markyp_rss</generator>, </channel>; the generator line is there
\* iff generator is not null and holds its escaped text, and the other lines
\* are the same whatever generator is.
C14_DefaultGenerator ==
    Rendered("Channel") =>
        LET ls == Lines(ret.s)
            others == ChannelHead(E) \o PresentOptional([E EXCEPT !.generator = None])
                      \o <<CloseTag(S_channel)>>
        IN  /\ E \in Constructed("Channel") =>
                  ret.s = Join(ChannelHead(E)
                               \o <<DefaultGeneratorLine, CloseTag(S_channel)>>, NL)
            /\ TagLines(ls, S_generator) = OptionalLine(S_generator, E.generator)
            /\ SelectSeq(ls, LAMBDA l : ~IsPrefix(OpenTag(S_generator), l)) = others

\* a Channel as constructed was rendered: six lines, the fifth the default
\* generator line
C14_Witness ==
    /\ Rendered("Channel")
    /\ E \in Constructed("Channel")
    /\ LET ls == Lines(ret.s) IN
       /\ Len(ls) = 6
       /\ ls[1] = OpenTag(S_channel)
       /\ ls[5] = DefaultGeneratorLine
       /\ ls[6] = CloseTag(S_channel)

\* the opening tag of the RSS root
RssOpenLine ==
    <<"<", "r", "s", "s", " ", "v", "e", "r", "s", "i", "o", "n", "=", QUOTE, "2", ".", "0",
      QUOTE, ">">>

\* C15: the rendering of an RSS root is <rss version="2.0">, a newline, the
\* rendering of the Channel it refers to now, with the fields and lists that
\* Channel has now, a newline, </rss>.
C15_RssWrapsChannel ==
    RenderedOf("R", "RSS") =>
        ret.s = RssOpenLine \o <<NL>>
                \o Channel__str__(objs[objs["R"].channel], lists, objs)
                \o <<NL, "<", "/", "r", "s", "s", ">">>

\* the root was pointed to the Channel E, E was given a ttl and an image, and
\* the root was rendered: the lines of E between the lines of the root
C15_Witness ==
    /\ RenderedOf("R", "RSS")
    /\ objs["R"].channel = "E"
    /\ E.ttl = Some(0) /\ E.image # None /\ lists[E._items] # <<>>
    /\ LET ls == Lines(ret.s) IN
       /\ ls[1] = RssOpenLine
       /\ ls[2] = OpenTag(S_channel)
       /\ Tag(S_ttl, <<"0">>) \in Range(ls)
       /\ ls[Len(ls) - 1] = CloseTag(S_channel)
       /\ ls[Len(ls)] = CloseTag(S_rss)

\* C17: an Image renders <image>, then the lines of title, url and link that
\* are not null, in that order, an empty text included, then </image>, joined
\* by newlines; with all three null it renders <image>, newline, </image>.
C17_ImageLines ==
    Rendered("Image") =>
        /\ ret.s = Join(<<OpenTag(S_image)>>
                        \o OptionalLine(S_title, E.title)
                        \o OptionalLine(S_url, E.url)
                        \o OptionalLine(S_link, E.link)
                        \o <<CloseTag(S_image)>>, NL)
        /\ (E.title = None /\ E.url = None /\ E.link = None) =>
               ret.s = <<"<", "i", "m", "a", "g", "e", ">", NL,
                         "<", "/", "i", "m", "a", "g", "e", ">">>

\* an Image without title, with the empty text as url and with a link to
\* escape was rendered
C17_Witness ==
    /\ Rendered("Image")
    /\ E.title = None /\ E.url = Some(<<>>) /\ E.link = Some(<<"a", "<", "&", ">">>)
    /\ Lines(ret.s) = <<OpenTag(S_image), OpenTag(S_url) \o CloseTag(S_url),
                        Tag(S_link, <<"a">> \o LTE \o AMP \o GTE), CloseTag(S_image)>>

\* C18: a GUID with value V renders <guid isPermaLink="B">escape(V)</guid>,
\* B the literal true or false as isPermaLink is now; a GUID as constructed
\* without an isPermaLink argument renders true.
C18_GuidPermaLink ==
    Rendered("GUID") =>
        LET B == IF E.is_perma_link THEN <<"t", "r", "u", "e">> ELSE <<"f", "a", "l", "s", "e">>
        IN  /\ ret.s = <<"<", "g", "u", "i", "d", " ", "i", "s", "P", "e", "r", "m", "a",
                         "L", "i", "n", "k", "=", QUOTE>> \o B \o <<QUOTE, ">">>
                       \o CharEscape(E.value) \o <<"<", "/", "g", "u", "i", "d", ">">>
            /\ E \in Constructed("GUID") => E.is_perma_link

\* isPermaLink of a GUID was set to false and the GUID rendered
C18_Witness ==
    /\ Rendered("GUID")
    /\ ~E.is_perma_link /\ E.value = <<"a", "&">>
    /\ ret.s = S_guid_open \o S_false \o S_quote_gt \o <<"a">> \o AMP \o CloseTag(S_guid)

\* name="value" with the value as it is
Attr(name, value) == name \o <<"=", QUOTE>> \o value \o <<QUOTE>>

\* C19: a Cloud renders as one self-closing tag with the five attributes
\* domain, port, path, registerProcedure, protocol in this order, an Enclosure
\* as one with url, length, type; port and length are in decimal, 0 included,
\* and no attribute is left out whatever the values are.
C19_SelfClosingAttributes ==
    /\ Rendered("Cloud") =>
           ret.s = <<"<", "c", "l", "o", "u", "d", " ">>
                   \o Attr(<<"d", "o", "m", "a", "i", "n">>, E.domain) \o <<" ">>
                   \o Attr(<<"p", "o", "r", "t">>, Decimal(E.port)) \o <<" ">>
                   \o Attr(<<"p", "a", "t", "h">>, E.path) \o <<" ">>
                   \o Attr(<<"r", "e", "g", "i", "s", "t", "e", "r",
                             "P", "r", "o", "c", "e", "d", "u", "r", "e">>, E.register_procedure)
                   \o <<" ">>
                   \o Attr(<<"p", "r", "o", "t", "o", "c", "o", "l">>, E.protocol)
                   \o <<"/", ">">>
    /\ Rendered("Enclosure") =>
           ret.s = <<"<", "e", "n", "c", "l", "o", "s", "u", "r", "e", " ">>
                   \o Attr(<<"u", "r", "l">>, E.url) \o <<" ">>
                   \o Attr(<<"l", "e", "n", "g", "t", "h">>, Decimal(E.length)) \o <<" ">>
                   \o Attr(<<"t", "y", "p", "e">>, E.type)
                   \o <<"/", ">">>

\* a Cloud with port 0 and an empty domain was rendered
C19_Witness ==
    /\ Rendered("Cloud")
    /\ E.port = 0 /\ E.domain = <<>>
    /\ ret.s = S_cloud_open \o S_domain \o <<"=", QUOTE, QUOTE, " ">> \o S_port
               \o <<"=", QUOTE, "0", QUOTE, " ">> \o S_path \o <<"=", QUOTE>> \o E.path
               \o <<QUOTE, " ">> \o S_registerProcedure \o <<"=", QUOTE>> \o E.register_procedure
               \o <<QUOTE, " ">> \o S_protocol \o <<"=", QUOTE>> \o E.protocol
               \o <<QUOTE>> \o S_selfclose

-----------------------------------------------------------------------------
(* Frame properties of rendering and of the list mutators.                 *)

\* C16: rendering an element changes no field and no list, of that element
\* or of any other, and rendering the same element again without a change in
\* between gives the same text.
C16_RenderingIsPure ==
    [][last'.op = "str" =>
          /\ objs' = objs
          /\ lists' = lists
          /\ (last.op = "str" /\ last.self = last'.self) => ret' = ret]_vars

\* the RSS root of a Channel with categories and items was rendered, and the
\* text is what rendering it now gives
C16_Witness ==
    /\ last = Op("str", "R", <<>>)
    /\ lists[objs["X"]._categories] # <<>> /\ lists[objs["X"]._items] # <<>>
    /\ ret = RetStr(RSS__str__(objs["R"], lists, objs))

\* the list a mutator works on
OwnList(e, op) == IF op \in {"add_item", "add_items", "set_items"} THEN objs[e]._items
                  ELSE objs[e]._categories

\* C20: a list mutator changes only its own list: a call on an Item or
\* Channel leaves every scalar field and sub-element reference of every
\* element as it was, leaves the other list of a Channel as it was, and does
\* not modify what it stores: an add call keeps the entries the list had, and
\* the Items in the Channel's item list keep their categories.
C20_MutatorsChangeOnlyTheirList ==
    [][\A self \in Callees :
          (last'.self = self /\ last'.op \in Mutators) =>
              /\ objs' = objs
              /\ \A l \in ListsOf(self) \ {OwnList(self, last'.op)} : lists'[l] = lists[l]
              /\ last'.op \notin {"set_categories", "set_items"} =>
                     IsPrefix(lists[OwnList(self, last'.op)], lists'[OwnList(self, last'.op)])
              /\ objs[self].cls = "Channel" =>
                     \A i \in Range(lists'[objs[self]._items]) \ {self} :
                         lists'[objs[i]._categories] = lists[objs[i]._categories]]_vars


\* C21: Items, and Channels, constructed without a list argument or with an
\* empty list start with empty lists of their own: a mutator call on one of
\* two Items, or of two Channels, changes neither the lists nor the rendering
\* of the other, and leaves the caller's empty list empty.
C21_FreshListsIndependent ==
    [][/\ last = NoOp => \A e \in DOMAIN objs : \A l \in ListsOf(e) : lists[l] = <<>>
       /\ \A self \in DOMAIN objs :
             (last'.self = self /\ last'.op \in Mutators) =>
                 /\ lists'["Le"] = <<>>
                 /\ \A b \in DOMAIN objs \ {self} :
                       objs[b].cls = objs[self].cls =>
                           /\ \A l \in ListsOf(b) : lists'[l] = lists[l]
                           /\ Str(objs'[b], lists', objs') = Str(objs[b], lists, objs)]_vars

\* the elements were all constructed with the caller's empty list, A and B
\* have both been added to, their lists differ and the caller's list is empty
C21_Witness ==
    /\ expect = Some("Le")
    /\ last.op = "add_categories" /\ last.self = "B" /\ ~last.empty
    /\ lists[objs["A"]._categories] = <<Cat1>>
    /\ lists[objs["B"]._categories] = <<Cat2, Cat1>>
    /\ lists[objs["X"]._items] = <<"A">> /\ lists[objs["Y"]._items] = <<>>
    /\ lists["Le"] = <<>>

====
